---------------------------- MODULE Spec2Model ----------------------------
(***************************************************************************)
(* Model of src/primitives.py: the three safety primitives LimitOverLoad,  *)
(* LimitSpeed and LimitTemperature of a Poppy robot, and                   *)
(* attach_safety_primitives.                                               *)
(*                                                                         *)
(* Each primitive is a pypot LoopPrimitive: start() runs setup() once and  *)
(* then update() at the primitive's frequency.  Every call of setup() or   *)
(* update() is one action.  The motors' telemetry and the re-engagement    *)
(* of a motor belong to the environment.                                   *)
(*                                                                         *)
(* Numbers.  Loads, positions and temperatures are integers.  A speed is   *)
(* an exact fraction <<num, den>> in lowest terms; after math.radians it is *)
(* read as a multiple of pi, so that 4*math.pi is the fraction <<4, 1>>.   *)
(* The resolutions 0.088 and 0.29 are 88 and 290 thousandths.              *)
(***************************************************************************)
EXTENDS Integers, Sequences, FiniteSets, TLC

VARIABLES
    present_load,         \* m.present_load of every motor
    present_position,     \* m.present_position of every motor
    present_temperature,  \* m.present_temperature of every motor
    model,                \* m.model of every motor
    compliant,            \* m.compliant of every motor
    prev_position,        \* LimitSpeed.prev_position: name -> [position]
    status,               \* lifecycle of each primitive
    freq,                 \* frequency each primitive was constructed with
    called,               \* the call made by the last step, with its arguments
    overloaded_motors,    \* verdict of the LimitOverLoad.update just run
    overspeeding_motors,  \* verdict of the LimitSpeed.update just run
    overheating_motors,   \* verdict of the LimitTemperature.update just run
    speed,                \* speeds computed by the LimitSpeed.update just run
    raised,               \* the update just run left with ValueError
    releases,             \* times the update just run executed its release loop
    pre_compliant         \* m.compliant of every motor when the update just run began

vars == <<present_load, present_position, present_temperature, model, compliant,
          prev_position, status, freq, called, overloaded_motors,
          overspeeding_motors, overheating_motors, speed, raised, releases,
          pre_compliant>>

telemetry == <<present_load, present_position, present_temperature, model>>

---------------------------------------------------------------------------
(* Bounds and input sets *)

MaxFreq == 2

Freqs == 1..MaxFreq

motors == <<"m1", "m2">>

Names == {motors[i] : i \in 1..Len(motors)}

Loads == {-75, 60, 75}

Positions == {0, 6000}

Temperatures == {-75, 60, 61}

Robots ==
    { [m1 |-> "MX-28", m2 |-> "AX-12"],
      [m1 |-> "MX-64", m2 |-> "XYZ-99"],
      [m1 |-> "XYZ-99", m2 |-> "AX-12"] }

Primitives == {"limit_overload", "limit_speed", "limit_overheat"}

---------------------------------------------------------------------------
(* Constants of the module *)

LOAD_LIMIT == 60

SPEED_LIMIT == <<4, 1>>

TEMPERATURE_LIMIT == 60

---------------------------------------------------------------------------
(* Arithmetic *)

Abs(x) == IF x < 0 THEN -x ELSE x

\* abs(q) > r for fractions with positive denominators
AbsGreater(q, r) == Abs(q[1]) * r[2] > r[1] * q[2]

RECURSIVE GCD(_, _)
GCD(a, b) == IF b = 0 THEN a ELSE GCD(b, a % b)

\* the fraction n / d, d > 0, in lowest terms
Frac(n, d) == LET g == GCD(Abs(n), d) IN <<n \div g, d \div g>>

\* math.radians(q) = q * pi / 180, as a multiple of pi
Radians(q) == Frac(q[1], q[2] * 180)

EmptyDict == [m \in {} |-> 0]

NoCall == [op |-> "none", args |-> <<>>]

Call(op) == [op |-> op, args |-> <<>>]

---------------------------------------------------------------------------
(* What every call leaves behind: the locals of an update that is not the  *)
(* one just run do not exist.                                              *)

NoOverload == overloaded_motors' = EmptyDict

NoOverspeed == overspeeding_motors' = EmptyDict /\ speed' = EmptyDict /\ raised' = FALSE

NoOverheat == overheating_motors' = EmptyDict

NoUpdate(flags) ==
    /\ NoOverload /\ NoOverspeed /\ NoOverheat
    /\ releases' = 0
    /\ pre_compliant' = flags

\* "if verdict: for m in motors: m.compliant = True": the flags after an update
\* that came to its verdict.  Release is what the code does; the three before
\* it are faulty variants (only the offending motors released; the flag
\* assigned from the verdict; the release done whatever the verdict).
ReleaseOnlyOffending(verdict) ==
    IF verdict # EmptyDict
    THEN [m \in Names |-> compliant[m] \/ m \in DOMAIN verdict]
    ELSE compliant

AssignFromVerdict(verdict) ==
    IF verdict # EmptyDict
    THEN [m \in Names |-> m \in DOMAIN verdict]
    ELSE compliant

ReleaseAlways(verdict) == [m \in Names |-> TRUE]

Release(verdict) ==
    IF verdict # EmptyDict
    THEN [m \in Names |-> TRUE]
    ELSE compliant

\* times the release loop ran
Released(verdict) == IF verdict # EmptyDict THEN 1 ELSE 0

---------------------------------------------------------------------------
(* LimitOverLoad *)

\* faulty variant: >= for >
OverloadedAtLimit(m) == Abs(present_load[m]) >= LOAD_LIMIT /\ ~compliant[m]

Overloaded(m) == Abs(present_load[m]) > LOAD_LIMIT /\ ~compliant[m]

LimitOverLoadSetup ==
    /\ status["limit_overload"] = "setup"
    /\ status' = [status EXCEPT !["limit_overload"] = "loop"]
    /\ called' = Call("LimitOverLoad.setup")
    /\ NoUpdate(compliant)
    /\ UNCHANGED <<telemetry, compliant, prev_position, freq>>

LimitOverLoadUpdate ==
    /\ status["limit_overload"] = "loop"
    /\ LET verdict == [m \in {n \in Names : Overloaded(n)} |-> present_load[m]]
       IN /\ overloaded_motors' = verdict
          /\ compliant' = Release(verdict)
          /\ releases' = Released(verdict)
    /\ called' = Call("LimitOverLoad.update")
    /\ NoOverspeed /\ NoOverheat
    /\ pre_compliant' = compliant
    /\ UNCHANGED <<telemetry, prev_position, status, freq>>

---------------------------------------------------------------------------
(* LimitSpeed *)

KnownModel(mdl) == mdl \in {"MX-28", "MX-64", "AX-12"}

\* degrees per position unit
Resolution(mdl) ==
    CASE mdl \in {"MX-28", "MX-64"} -> <<88, 1000>>
      [] mdl \in {"AX-12"} -> <<290, 1000>>

\* speed of motor m after math.radians
MotorSpeed(m) ==
    LET resolution == Resolution(model[m])
        d == present_position[m] - prev_position[m][1]
    IN Radians(Frac(d * resolution[1], resolution[2] * freq["limit_speed"]))

Overspeeding(m) == AbsGreater(MotorSpeed(m), SPEED_LIMIT)

\* faulty variant: the tracker seeded with 0
SetupZero == [m \in Names |-> <<0>>]

SetupPositions == [m \in Names |-> <<present_position[m]>>]

LimitSpeedSetup ==
    /\ status["limit_speed"] = "setup"
    /\ prev_position' = SetupPositions
    /\ status' = [status EXCEPT !["limit_speed"] = "loop"]
    /\ called' = Call("LimitSpeed.setup")
    /\ NoUpdate(compliant)
    /\ UNCHANGED <<telemetry, compliant, freq>>

\* The for loop of update meets a motor of an unknown model: ValueError leaves
\* update before its verdict is looked at, and the locals go with the frame.
\* What the caller of update does with the exception is not in this module.
UnknownModelMet == \E m \in Names : ~KnownModel(model[m])

LimitSpeedUpdate ==
    /\ status["limit_speed"] = "loop"
    /\ IF UnknownModelMet
       THEN /\ raised' = TRUE
            /\ speed' = EmptyDict
            /\ overspeeding_motors' = EmptyDict
            /\ compliant' = compliant /\ releases' = 0
       ELSE LET verdict == [m \in {n \in Names : Overspeeding(n)} |-> MotorSpeed(m)]
            IN /\ raised' = FALSE
               /\ speed' = [m \in Names |-> MotorSpeed(m)]
               /\ overspeeding_motors' = verdict
               /\ compliant' = Release(verdict)
               /\ releases' = Released(verdict)
    /\ called' = Call("LimitSpeed.update")
    /\ NoOverload /\ NoOverheat
    /\ pre_compliant' = compliant
    /\ UNCHANGED <<telemetry, prev_position, status, freq>>

---------------------------------------------------------------------------
(* LimitTemperature *)

\* faulty variant: >= for >
OverheatingAtLimit(m) == present_temperature[m] >= TEMPERATURE_LIMIT

Overheating(m) == present_temperature[m] > TEMPERATURE_LIMIT

LimitTemperatureSetup ==
    /\ status["limit_overheat"] = "setup"
    /\ status' = [status EXCEPT !["limit_overheat"] = "loop"]
    /\ called' = Call("LimitTemperature.setup")
    /\ NoUpdate(compliant)
    /\ UNCHANGED <<telemetry, compliant, prev_position, freq>>

LimitTemperatureUpdate ==
    /\ status["limit_overheat"] = "loop"
    /\ LET verdict == [m \in {n \in Names : Overheating(n)} |-> present_temperature[m]]
       IN /\ overheating_motors' = verdict
          /\ compliant' = Release(verdict)
          /\ releases' = Released(verdict)
    /\ called' = Call("LimitTemperature.update")
    /\ NoOverload /\ NoOverspeed
    /\ pre_compliant' = compliant
    /\ UNCHANGED <<telemetry, prev_position, status, freq>>

---------------------------------------------------------------------------
(* attach_safety_primitives *)

\* robot.attach_primitive leaves a primitive idle; start() makes it run,
\* beginning with its setup.  AttachedSpeedNotStarted is a faulty variant:
\* limit_speed.start() left out.
AttachedSpeedNotStarted(start) ==
    [p \in Primitives |-> IF start /\ p # "limit_speed" THEN "setup" ELSE "idle"]

AttachedStatus(start) ==
    [p \in Primitives |-> IF start THEN "setup" ELSE "idle"]

AttachSafetyPrimitives(start, frequency) ==
    /\ \A p \in Primitives : status[p] = "unattached"
    /\ freq' = [p \in Primitives |-> frequency]
    /\ status' = AttachedStatus(start)
    /\ called' = [op |-> "attach_safety_primitives", args |-> <<start, frequency>>]
    /\ NoUpdate(compliant)
    /\ UNCHANGED <<telemetry, compliant, prev_position>>

Attach == \E start \in BOOLEAN, frequency \in Freqs : AttachSafetyPrimitives(start, frequency)

---------------------------------------------------------------------------
(* Environment: the motors' telemetry changes, and an external actor may  *)
(* engage a motor again.                                                   *)

External(flags) ==
    /\ called' = NoCall
    /\ NoUpdate(flags)
    /\ UNCHANGED <<model, prev_position, status, freq>>

LoadChanges ==
    \E m \in Names, v \in Loads :
        /\ present_load' = [present_load EXCEPT ![m] = v]
        /\ External(compliant)
        /\ UNCHANGED <<present_position, present_temperature, compliant>>

MotorMoves ==
    \E m \in Names, v \in Positions :
        /\ present_position' = [present_position EXCEPT ![m] = v]
        /\ External(compliant)
        /\ UNCHANGED <<present_load, present_temperature, compliant>>

TemperatureChanges ==
    \E m \in Names, v \in Temperatures :
        /\ present_temperature' = [present_temperature EXCEPT ![m] = v]
        /\ External(compliant)
        /\ UNCHANGED <<present_load, present_position, compliant>>

Engage ==
    \E m \in Names :
        /\ compliant' = [compliant EXCEPT ![m] = FALSE]
        /\ External([compliant EXCEPT ![m] = FALSE])
        /\ UNCHANGED <<present_load, present_position, present_temperature>>

---------------------------------------------------------------------------
Init ==
    /\ present_load \in [Names -> Loads]
    /\ present_position \in [Names -> Positions]
    /\ present_temperature \in [Names -> Temperatures]
    /\ model \in Robots
    /\ compliant \in [Names -> BOOLEAN]
    /\ prev_position = EmptyDict
    /\ status = [p \in Primitives |-> "unattached"]
    /\ freq = [p \in Primitives |-> 0]
    /\ called = NoCall
    /\ overloaded_motors = EmptyDict
    /\ overspeeding_motors = EmptyDict
    /\ overheating_motors = EmptyDict
    /\ speed = EmptyDict
    /\ raised = FALSE
    /\ releases = 0
    /\ pre_compliant = compliant

Next ==
    \/ Attach
    \/ LimitOverLoadSetup
    \/ LimitOverLoadUpdate
    \/ LimitSpeedSetup
    \/ LimitSpeedUpdate
    \/ LimitTemperatureSetup
    \/ LimitTemperatureUpdate
    \/ LoadChanges
    \/ MotorMoves
    \/ TemperatureChanges
    \/ Engage

Spec == Init /\ [][Next]_vars

---------------------------------------------------------------------------
(* Properties *)

OpCalled == called.op

UpdateCalled ==
    OpCalled \in {"LimitOverLoad.update", "LimitSpeed.update", "LimitTemperature.update"}

VerdictEmpty ==
    /\ overloaded_motors = EmptyDict
    /\ overspeeding_motors = EmptyDict
    /\ overheating_motors = EmptyDict

AllCompliant == \A m \in Names : compliant[m]

Running(p) == status[p] \in {"setup", "loop"}

\* displacement of motor m since the position the speed tracker holds
Displacement(m) == present_position[m] - prev_position[m][1]

\* radians(d * resolution * f): the displacement multiplied by the frequency
SpeedTimesFrequency(m) ==
    LET resolution == Resolution(model[m])
    IN Radians(Frac(Displacement(m) * resolution[1] * freq["limit_speed"], resolution[2]))

\* C1: after every LimitOverLoad.update the overload verdict holds exactly the
\* motors that were not compliant when the update began and whose abs(load) is
\* strictly above LOAD_LIMIT, each with its load; a compliant motor and a motor
\* with abs(load) = LOAD_LIMIT are not in it.
C1_OverloadVerdict ==
    OpCalled = "LimitOverLoad.update" =>
        overloaded_motors =
            [m \in {n \in Names : ~pre_compliant[n] /\ Abs(present_load[n]) > LOAD_LIMIT}
                |-> present_load[m]]

\* a compliant motor above the limit is left out, another motor is recorded
C1_Witness ==
    /\ OpCalled = "LimitOverLoad.update"
    /\ \E a, b \in Names :
        /\ pre_compliant[a] /\ Abs(present_load[a]) > LOAD_LIMIT
        /\ a \notin DOMAIN overloaded_motors
        /\ present_load[b] < 0 /\ b \in DOMAIN overloaded_motors

C3_SpeedIsDisplacementTimesFrequency ==
    (OpCalled = "LimitSpeed.update" /\ ~raised) =>
        \A m \in Names :
            /\ speed[m] = SpeedTimesFrequency(m)
            /\ m \in DOMAIN overspeeding_motors
                   <=> AbsGreater(SpeedTimesFrequency(m), SPEED_LIMIT)

\* C4: after every LimitTemperature.update the overheat verdict holds exactly
\* the motors whose temperature is strictly above TEMPERATURE_LIMIT, compliant
\* or not, each with its temperature; when no temperature is above the limit
\* no compliance flag has changed.
C4_OverheatVerdict ==
    OpCalled = "LimitTemperature.update" =>
        /\ overheating_motors =
               [m \in {n \in Names : present_temperature[n] > TEMPERATURE_LIMIT}
                   |-> present_temperature[m]]
        /\ (\A m \in Names : present_temperature[m] <= TEMPERATURE_LIMIT)
               => compliant = pre_compliant

\* a motor exactly at the limit is left out and nothing is released
C4_Witness ==
    /\ OpCalled = "LimitTemperature.update"
    /\ \E a, b \in Names :
        /\ present_temperature[a] = TEMPERATURE_LIMIT
        /\ present_temperature[b] < -TEMPERATURE_LIMIT
        /\ ~compliant[a]
    /\ overheating_motors = EmptyDict

\* C5: after a LimitSpeed.update on a robot with a motor of unknown model, the
\* error is reported, the unknown motor is not in the speed verdict, and every
\* known-model motor that is overspeeding is in the verdict and has caused the
\* release of all motors.
C5_UnknownModelSparesOthers ==
    (OpCalled = "LimitSpeed.update" /\ UnknownModelMet) =>
        /\ raised
        /\ \A m \in Names :
            IF KnownModel(model[m])
            THEN Overspeeding(m) => (m \in DOMAIN overspeeding_motors /\ AllCompliant)
            ELSE m \notin DOMAIN overspeeding_motors

C7_AttachRegistersAndStarts ==
    OpCalled = "attach_safety_primitives" =>
        \A p \in Primitives :
            /\ status[p] # "unattached"
            /\ freq[p] = called.args[2]
            /\ Running(p) <=> called.args[1]

\* attached with start true and a frequency above 1: all three run
C7_Witness ==
    /\ OpCalled = "attach_safety_primitives"
    /\ called.args[1]
    /\ called.args[2] > 1
    /\ \A p \in Primitives : Running(p)

\* C8: after every LimitSpeed.update the tracker entry of every motor is the
\* motor's position read by that update.
C8_TrackerFollowsPosition ==
    OpCalled = "LimitSpeed.update" =>
        \A m \in Names : prev_position[m] = <<present_position[m]>>

\* C9: no step of a primitive (attach, setup or update, in any interleaving)
\* takes a motor from compliant to not compliant.
C9_ReleasedIsStable ==
    [][called'.op # "none" => \A m \in Names : compliant[m] => compliant'[m]]_vars

\* an update tripped and released again a robot that was already released
C9_Witness ==
    /\ UpdateCalled
    /\ releases = 1
    /\ \A m \in Names : pre_compliant[m] /\ compliant[m]

\* C10: an update never changes a motor's load, position, temperature or
\* model, and an update whose verdict is empty changes no compliance flag.
C10_UpdateFrame ==
    [][called'.op \in {"LimitOverLoad.update", "LimitSpeed.update",
                       "LimitTemperature.update"} =>
          /\ telemetry' = telemetry
          /\ (/\ overloaded_motors' = EmptyDict
              /\ overspeeding_motors' = EmptyDict
              /\ overheating_motors' = EmptyDict) => compliant' = compliant]_vars

\* an update with an empty verdict on a robot with an engaged motor whose
\* load and temperature are off zero
C10_Witness ==
    /\ UpdateCalled
    /\ VerdictEmpty
    /\ \E m \in Names : ~compliant[m] /\ present_load[m] # 0 /\ present_temperature[m] # 0

===========================================================================
